---- MODULE Spec2Model ----
(***************************************************************************)
(* Model of src/src/mosquitto_calls.rs: the outbound publish calls         *)
(* (publish_broadcast, publish_to_client) and the retained-message query   *)
(* (get_retained, reclaim_into_box, convert_to_rust_type) of the mosquitto *)
(* plugin crate, together with the host functions they call                *)
(* (mosquitto_broker_publish, mosquitto_get_retained), which are modelled  *)
(* as a nondeterministic environment.                                      *)
(*                                                                         *)
(* Every call runs on a thread of Threads.  A call is split at the foreign *)
(* call: one action marshals the arguments and enters the host, the next   *)
(* one takes the host's answer and runs the rest of the function.          *)
(***************************************************************************)
EXTENDS Integers, Sequences, FiniteSets, TLC

VARIABLES pc, op, calls, resps, bufs, pbuf, result

vars == <<pc, op, calls, resps, bufs, pbuf, result>>

Threads == {1, 2}

(***************************************************************************)
(* Bounds of the model.                                                    *)
(***************************************************************************)
\* the host answers BUFFER_FULL to at most MaxRetries attempts of one call
MaxRetries == 2
\* the found-count the host reports goes up to capacity + MaxOver
MaxOver == 1

(***************************************************************************)
(* Host status codes (enum mosq_err_t of the generated bindings).          *)
(***************************************************************************)
MOSQ_ERR_SUCCESS == 0
MOSQ_ERR_NOMEM == 1
MOSQ_ERR_PROTOCOL == 2
MOSQ_ERR_INVAL == 3
MOSQ_ERR_BUFFER_FULL == 32

\* every status the status-translation claims range over
AllCodes == 0..255
\* the statuses the modelled host answers with: the named ones and three
\* that no match arm names
HostCodes == {MOSQ_ERR_SUCCESS, MOSQ_ERR_NOMEM, MOSQ_ERR_PROTOCOL, MOSQ_ERR_INVAL,
              MOSQ_ERR_BUFFER_FULL, 4, 14, 255}

(***************************************************************************)
(* Bytes, strings and pointers.                                            *)
(***************************************************************************)
Range(s) == {s[i] : i \in 1..Len(s)}

\* a raw pointer: null, the address of the readable bytes mem, or an
\* address that is not null and not readable
NullPtr == [null |-> TRUE, valid |-> FALSE, mem |-> <<>>]
Ptr(m) == [null |-> FALSE, valid |-> TRUE, mem |-> m]
WildPtr == [null |-> FALSE, valid |-> FALSE, mem |-> <<>>]

\* CString::new(s): fails when s holds an interior 0 byte
HasNulFirstOnly(s) == s # <<>> /\ s[1] = 0
HasNul(s) == 0 \in Range(s)
\* CString::as_bytes_with_nul
AsBytesWithNul(s) == s \o <<0>>

\* the bytes a C reader sees at a char pointer: everything before the first 0
RECURSIVE CStrBytes(_)
CStrBytes(m) ==
    IF m = <<>> \/ Head(m) = 0 THEN <<>>
    ELSE <<Head(m)>> \o CStrBytes(Tail(m))

\* `n as i32` of a usize
AsI32(n) == IF n <= 2147483647 THEN n ELSE n - 2147483647 - 2147483647 - 2

\* ptr::copy_to(dst, count) into a fresh malloc(count) block: the first
\* count bytes of src
CopyBytesShort(src, count) == [i \in 1..(IF count > 0 THEN count - 1 ELSE 0) |-> src[i]]
CopyBytes(src, count) == [i \in 1..count |-> src[i]]

\* QOS::to_i32
QosToI32(q) ==
    CASE q = "AtMostOnce" -> 0
      [] q = "AtLeastOnce" -> 1
      [] q = "ExactlyOnce" -> 2

(***************************************************************************)
(* Inputs of the calls.                                                    *)
(***************************************************************************)
\* &str arguments, as UTF-8 bytes: "", "a", "a/b", "a\0b", "\0"
Strs == {<<>>, <<97>>, <<97, 47, 98>>, <<97, 0, 98>>, <<0>>}
Payloads == {<<>>, <<1, 2, 3>>, <<0>>, <<255, 0>>}
QosLevels == {"AtMostOnce", "AtLeastOnce", "ExactlyOnce"}
InitCaps == {0, 1, 3, 10}

NoOp == [name |-> "none"]
NoResult == [kind |-> "none"]

(***************************************************************************)
(* Status translation of the publish calls: the match on res.              *)
(***************************************************************************)
PublishResult(res) ==
    CASE res = 0 -> [kind |-> "Ok"]
      [] res = 1 -> [kind |-> "Err", err |-> "NoMem"]
      [] res = 3 -> [kind |-> "Err", err |-> "Inval"]
      [] OTHER -> [kind |-> "Err", err |-> "Unknown"]

(***************************************************************************)
(* publish_broadcast and publish_to_client up to the foreign call.         *)
(***************************************************************************)
\* the payload block the call mallocs and fills
PayloadBlock(payload) ==
    [bytes |-> CopyBytes(payload, Len(payload)), coreFrees |-> 0, owner |-> "core"]

\* the arguments of mosquitto_broker_publish
PublishArgs(client, topic, payload, qos, retain) ==
    [fn |-> "mosquitto_broker_publish",
     client_id |-> client,
     topic |-> Ptr(AsBytesWithNul(topic)),
     payloadlen |-> AsI32(Len(payload)),
     payload |-> PayloadBlock(payload).bytes,
     qos |-> QosToI32(qos),
     retain |-> retain,
     properties |-> NullPtr]

\* the client id argument of publish_to_client
ClientIdArgEmptyIsNull(client_id) ==
    IF client_id = <<>> THEN NullPtr ELSE Ptr(AsBytesWithNul(client_id))
ClientIdArg(client_id) == Ptr(AsBytesWithNul(client_id))

PublishBroadcastCall(t) ==
    /\ pc[t] = "idle"
    /\ \E topic \in Strs, payload \in Payloads, qos \in QosLevels, retain \in BOOLEAN :
         /\ op' = [op EXCEPT ![t] = [name |-> "publish_broadcast", topic |-> topic,
                                     payload |-> payload, qos |-> qos, retain |-> retain]]
         /\ IF HasNul(topic)
            THEN \* CString::new(topic).expect(..) panics
                 /\ pc' = [pc EXCEPT ![t] = "done"]
                 /\ result' = [result EXCEPT ![t] = [kind |-> "Panic"]]
                 /\ UNCHANGED <<calls, pbuf>>
            ELSE /\ pc' = [pc EXCEPT ![t] = "in_publish"]
                 /\ pbuf' = [pbuf EXCEPT ![t] = <<PayloadBlock(payload)>>]
                 /\ calls' = [calls EXCEPT ![t] =
                        Append(@, PublishArgs(NullPtr, topic, payload, qos, retain))]
                 /\ UNCHANGED result
    /\ UNCHANGED <<resps, bufs>>

PublishToClientCall(t) ==
    /\ pc[t] = "idle"
    /\ \E client_id \in Strs, topic \in Strs, payload \in Payloads,
          qos \in QosLevels, retain \in BOOLEAN :
         /\ op' = [op EXCEPT ![t] = [name |-> "publish_to_client", client_id |-> client_id,
                                     topic |-> topic, payload |-> payload,
                                     qos |-> qos, retain |-> retain]]
         /\ IF HasNul(client_id) \/ HasNul(topic)
            THEN \* one of the two CString::new(..).expect(..) panics
                 /\ pc' = [pc EXCEPT ![t] = "done"]
                 /\ result' = [result EXCEPT ![t] = [kind |-> "Panic"]]
                 /\ UNCHANGED <<calls, pbuf>>
            ELSE /\ pc' = [pc EXCEPT ![t] = "in_publish"]
                 /\ pbuf' = [pbuf EXCEPT ![t] = <<PayloadBlock(payload)>>]
                 /\ calls' = [calls EXCEPT ![t] =
                        Append(@, PublishArgs(ClientIdArg(client_id), topic,
                                              payload, qos, retain))]
                 /\ UNCHANGED result
    /\ UNCHANGED <<resps, bufs>>

(***************************************************************************)
(* mosquitto_broker_publish returns res; the call matches on it and        *)
(* returns.  On success the host owns the payload block; the call frees    *)
(* nothing on either path.                                                 *)
(***************************************************************************)
AfterPublish(block, res) ==
    [block EXCEPT !.owner = IF res = 0 THEN "host" ELSE "core"]

HostPublishReturnRetry(t) ==
    /\ pc[t] = "in_publish"
    /\ \E res \in HostCodes :
         /\ resps' = [resps EXCEPT ![t] = Append(@, [rc |-> res, found |-> 0, store |-> "a"])]
         /\ pbuf' = [pbuf EXCEPT ![t] = <<AfterPublish(pbuf[t][1], res)>>]
         /\ result' = [result EXCEPT ![t] = PublishResult(res)]
         /\ IF res = 0 \/ Len(calls[t]) > 1
            THEN pc' = [pc EXCEPT ![t] = "done"] /\ UNCHANGED calls
            ELSE /\ pc' = pc
                 /\ calls' = [calls EXCEPT ![t] = Append(@, calls[t][1])]
    /\ UNCHANGED <<op, bufs>>

\* the translated status kept in one place for every thread
HostPublishReturnSharedResult(t) ==
    /\ pc[t] = "in_publish"
    /\ \E res \in HostCodes :
         /\ resps' = [resps EXCEPT ![t] = Append(@, [rc |-> res, found |-> 0, store |-> "a"])]
         /\ pbuf' = [pbuf EXCEPT ![t] = <<AfterPublish(pbuf[t][1], res)>>]
         /\ result' = [u \in Threads |-> PublishResult(res)]
    /\ pc' = [pc EXCEPT ![t] = "done"]
    /\ UNCHANGED <<op, calls, bufs>>

HostPublishReturn(t) ==
    /\ pc[t] = "in_publish"
    /\ \E res \in HostCodes :
         /\ resps' = [resps EXCEPT ![t] = Append(@, [rc |-> res, found |-> 0, store |-> "a"])]
         /\ pbuf' = [pbuf EXCEPT ![t] = <<AfterPublish(pbuf[t][1], res)>>]
         /\ result' = [result EXCEPT ![t] = PublishResult(res)]
    /\ pc' = [pc EXCEPT ![t] = "done"]
    /\ UNCHANGED <<op, calls, bufs>>

(***************************************************************************)
(* The records of the Query Buffer.                                        *)
(***************************************************************************)
\* the mosquitto_message every slot is allocated with
ZeroMessage ==
    [mid |-> 0, topic |-> NullPtr, payload |-> NullPtr, payloadlen |-> 0,
     qos |-> 0, retain |-> FALSE]

\* a slot whose topic and payload pointers the host left unreadable
WildMessage ==
    [mid |-> 7, topic |-> WildPtr, payload |-> WildPtr, payloadlen |-> 5,
     qos |-> 2, retain |-> TRUE]

\* the retained stores the host answers from; Rec(s, i) is what it writes
\* to slot i.  Store "a" holds well-formed records, all different; the first
\* is topic "a/b", payload [1,2,3], qos 1, retain true.  Store "b" has a
\* two-byte UTF-8 topic at slot 0 and a topic that is no UTF-8 at slot 1;
\* store "c" has a truncated UTF-8 sequence at slot 0.  The bytes are the
\* topic text, without the terminating 0.
Stores == {"a", "b", "c"}

StoreTopic(s, i) ==
    CASE s = "b" /\ i = 0 -> <<195, 169>>
      [] s = "b" /\ i = 1 -> <<255>>
      [] s = "c" /\ i = 0 -> <<97, 195>>
      [] OTHER -> <<97, 47, 98 + (i % 20)>>

\* the retained message the store s holds at position i
StoreMessage(s, i) ==
    [topic |-> StoreTopic(s, i),
     payload |-> <<(i + 1) % 256, 2, 3>>,
     qos |-> (i + 1) % 3,
     retain |-> (i % 2 = 0)]

\* the mosquitto_message the host writes for it
Rec(s, i) ==
    LET m == StoreMessage(s, i)
    IN  [mid |-> i + 1,
         topic |-> Ptr(AsBytesWithNul(m.topic)),
         payload |-> Ptr(m.payload),
         payloadlen |-> Len(m.payload),
         qos |-> m.qos,
         retain |-> m.retain]

\* a Query Buffer: the Vec of buf_size slot pointers (ptrs[i] is FALSE when
\* the pointer is null), the record behind each pointer, how often each
\* slot has been freed, and whether the host call it was passed to has
\* returned
NewBuffer(buf_size) ==
    [cap |-> buf_size,
     ptrs |-> [i \in 1..buf_size |-> TRUE],
     recs |-> [i \in 1..buf_size |-> ZeroMessage],
     frees |-> [i \in 1..buf_size |-> 0],
     returned |-> FALSE]

(***************************************************************************)
(* mosquitto_get_retained, the host side: it reports rc and found, writes  *)
(* the first min(found, capacity) slots from the store s, leaves the other *)
(* slots as they are or scribbles on them (junk), and, against its         *)
(* contract, may null the slot pointer at index nullAt.                    *)
(***************************************************************************)
HostFill(buffer, found, s, junk, nullAt) ==
    [buffer EXCEPT
       !.recs = [i \in 1..buffer.cap |->
                   IF i - 1 < found THEN Rec(s, i - 1)
                   ELSE IF junk = "wild" THEN WildMessage ELSE buffer.recs[i]],
       !.ptrs = [i \in 1..buffer.cap |-> (i - 1) # nullAt],
       !.returned = TRUE]

\* what the host does to the slots it does not fill; scribbling is tried with
\* store "a"
JunkChoices(s) == IF s = "a" THEN {"zero", "wild"} ELSE {"zero"}

NullChoices(cap) == {-1} \cup ({0, cap - 1} \cap (0..(cap - 1)))

(***************************************************************************)
(* reclaim_into_box: the loop over 0..buf_size.                            *)
(***************************************************************************)
\* `if i < messages_found as usize`: is the record of slot i kept
KeepRecordInclusive(i, messages_found) == i <= messages_found
KeepRecord(i, messages_found) == i < messages_found

RECURSIVE ReclaimLoop(_, _, _, _, _, _)
ReclaimLoop(buffer, buf_size, messages_found, i, frees, msgs) ==
    IF i >= buf_size
    THEN [frees |-> frees, res |-> [kind |-> "Ok", msgs |-> msgs]]
    ELSE IF ~buffer.ptrs[i + 1]
    THEN [frees |-> frees,
          res |-> [kind |-> "Err",
                   msg |-> <<"Dereferencing a null pointer is a bad idea">>]]
    ELSE ReclaimLoop(buffer, buf_size, messages_found, i + 1,
                     [frees EXCEPT ![i + 1] = @ + 1],
                     IF KeepRecord(i, messages_found)
                     THEN Append(msgs, buffer.recs[i + 1]) ELSE msgs)

ReclaimIntoBoxCheckFirst(buffer, buf_size, messages_found) ==
    LET r == ReclaimLoop(buffer, buf_size, messages_found, 0, buffer.frees, <<>>)
    IN  IF r.res.kind = "Err" THEN [frees |-> buffer.frees, res |-> r.res] ELSE r
ReclaimIntoBoxOnlyFound(buffer, buf_size, messages_found) ==
    ReclaimLoop(buffer, IF messages_found < buf_size THEN messages_found ELSE buf_size,
                messages_found, 0, buffer.frees, <<>>)
ReclaimIntoBox(buffer, buf_size, messages_found) ==
    ReclaimLoop(buffer, buf_size, messages_found, 0, buffer.frees, <<>>)

(***************************************************************************)
(* convert_to_rust_type.                                                   *)
(***************************************************************************)
IsCont(b) == b >= 128 /\ b <= 191

\* CStr::to_str: is the byte sequence well-formed UTF-8
RECURSIVE IsUtf8(_)
IsUtf8(b) ==
    IF b = <<>> THEN TRUE
    ELSE LET h == Head(b)
             n == Len(b)
         IN  CASE h <= 127 -> IsUtf8(Tail(b))
               [] h >= 194 /\ h <= 223 ->
                    /\ n >= 2 /\ IsCont(b[2])
                    /\ IsUtf8(SubSeq(b, 3, n))
               [] h >= 224 /\ h <= 239 ->
                    /\ n >= 3 /\ IsCont(b[2]) /\ IsCont(b[3])
                    /\ (h = 224 => b[2] >= 160)
                    /\ (h = 237 => b[2] <= 159)
                    /\ IsUtf8(SubSeq(b, 4, n))
               [] h >= 240 /\ h <= 244 ->
                    /\ n >= 4 /\ IsCont(b[2]) /\ IsCont(b[3]) /\ IsCont(b[4])
                    /\ (h = 240 => b[2] >= 144)
                    /\ (h = 244 => b[2] <= 143)
                    /\ IsUtf8(SubSeq(b, 5, n))
               [] OTHER -> FALSE

\* the Domain Message built from one record whose pointers are readable
MessageOfWithNul(msg) ==
    [topic |-> msg.topic.mem,
     payload |-> SubSeq(msg.payload.mem, 1, msg.payloadlen),
     qos |-> msg.qos,
     retain |-> msg.retain]
MessageOf(msg) ==
    [topic |-> CStrBytes(msg.topic.mem),
     payload |-> SubSeq(msg.payload.mem, 1, msg.payloadlen),
     qos |-> msg.qos,
     retain |-> msg.retain]

\* one step of the loop: the outcomes the build can produce for one record.
\* Reading through a null or unreadable topic or payload pointer is
\* undefined: the process dies, or the read yields some bytes.
ConvertOne(msg) ==
    IF ~msg.topic.valid \/ ~msg.payload.valid
    THEN {[kind |-> "Crash"],
          [kind |-> "Msg",
           msg |-> [topic |-> <<63>>, payload |-> <<>>,
                    qos |-> msg.qos, retain |-> msg.retain]]}
    ELSE IF ~IsUtf8(CStrBytes(msg.topic.mem))
    THEN {[kind |-> "Err",
           msg |-> <<"get_retained failed to create topic &str from CStr pointer">>]}
    ELSE {[kind |-> "Msg", msg |-> MessageOf(msg)]}

RECURSIVE ConvertLoop(_, _, _)
ConvertLoop(messages, i, acc) ==
    IF i > Len(messages) THEN {[kind |-> "Ok", msgs |-> acc]}
    ELSE UNION { IF o.kind = "Msg"
                 THEN ConvertLoop(messages, i + 1, Append(acc, o.msg))
                 ELSE IF o.kind = "Err" THEN {[kind |-> "Err", msg |-> o.msg]}
                 ELSE {[kind |-> "Crash"]}
                 : o \in ConvertOne(messages[i]) }

\* the set of results convert_to_rust_type can return for messages
ConvertToRustTypeReversed(messages) ==
    ConvertLoop([i \in 1..Len(messages) |-> messages[Len(messages) + 1 - i]], 1, <<>>)
ConvertToRustType(messages) == ConvertLoop(messages, 1, <<>>)

(***************************************************************************)
(* get_retained.                                                           *)
(***************************************************************************)
\* the arguments of mosquitto_get_retained
QueryArgs(topic, buf_size) ==
    [fn |-> "mosquitto_get_retained",
     topic |-> Ptr(AsBytesWithNul(topic)),
     len |-> buf_size]

\* the capacity of the recursive call on BUFFER_FULL
GrowCapacityByTen(buf_size) == buf_size + 10
GrowCapacity(buf_size) == buf_size * 2

\* the arm of `match rc` that runs
MatchRcRetryNoMem(rc) ==
    CASE rc = MOSQ_ERR_SUCCESS -> "success"
      [] rc = MOSQ_ERR_BUFFER_FULL \/ rc = MOSQ_ERR_NOMEM -> "buffer_full"
      [] OTHER -> "error"
MatchRc(rc) ==
    CASE rc = MOSQ_ERR_SUCCESS -> "success"
      [] rc = MOSQ_ERR_BUFFER_FULL -> "buffer_full"
      [] OTHER -> "error"

\* the match on rc that names the error
ErrorName(error) ==
    CASE error = MOSQ_ERR_INVAL -> "MOSQ_ERR_INVAL"
      [] error = MOSQ_ERR_NOMEM -> "MOSQ_ERR_NOMEM"
      [] error = MOSQ_ERR_PROTOCOL -> "MOSQ_ERR_PROTOCOL"
      [] OTHER -> "UNKNOWN ERROR"

FailedPrefix == "mosquitto_get_retained failed. return code from mosquitto: "

\* the error arm: msg, the reclaim, and the error that is returned
ErrorArmDoubleReclaim(buffer, buf_size, messages_found, error) ==
    LET msg == <<FailedPrefix, ErrorName(error)>>
        rec == ReclaimIntoBox(buffer, buf_size, messages_found)
        again == ReclaimIntoBox([buffer EXCEPT !.frees = rec.frees], buf_size, messages_found)
    IN  [frees |-> again.frees,
         res |-> [kind |-> "Err", msg |-> <<FailedPrefix>> \o msg]]
ErrorArm(buffer, buf_size, messages_found, error) ==
    LET msg == <<FailedPrefix, ErrorName(error)>>
        rec == ReclaimIntoBox(buffer, buf_size, messages_found)
    IN  [frees |-> rec.frees,
         res |-> IF rec.res.kind = "Err"
                 THEN [kind |-> "Err",
                       msg |-> <<"failed to reclaim memory (potentially big problem): ">>
                               \o rec.res.msg \o <<" while handling this error: ">> \o msg]
                 ELSE [kind |-> "Err", msg |-> <<FailedPrefix>> \o msg]]

\* what the BUFFER_FULL arm does with the buffer of the attempt before it
\* calls get_retained again: the Vec of pointers is dropped, the slots stay
\* allocated
BufferFullArm(buffer) == buffer

GetRetainedCall(t) ==
    /\ pc[t] = "idle"
    /\ \E topic \in Strs, buf_size \in InitCaps :
         /\ op' = [op EXCEPT ![t] = [name |-> "get_retained", topic |-> topic,
                                     buf_size |-> buf_size]]
         /\ IF HasNul(topic)
            THEN \* CString::new(topic) fails, map_err, `?`
                 /\ pc' = [pc EXCEPT ![t] = "done"]
                 /\ result' = [result EXCEPT ![t] =
                       [kind |-> "Err",
                        msg |-> <<"failed to make cstring for topic ", "{topic}",
                                  " probably it contains a 0 byte">>]]
                 /\ UNCHANGED <<calls, bufs>>
            ELSE /\ pc' = [pc EXCEPT ![t] = "in_query"]
                 /\ bufs' = [bufs EXCEPT ![t] = <<NewBuffer(buf_size)>>]
                 /\ calls' = [calls EXCEPT ![t] = <<QueryArgs(topic, buf_size)>>]
                 /\ UNCHANGED result
    /\ UNCHANGED <<resps, pbuf>>

\* the buffer and the capacity of the attempt that is in the host
CurBuf(t) == bufs[t][Len(bufs[t])]
CurCap(t) == calls[t][Len(calls[t])].len

\* rc = MOSQ_ERR_SUCCESS: reclaim, then convert
QuerySuccess(t) ==
    /\ pc[t] = "in_query"
    /\ \E rc \in HostCodes, found \in 0..(CurCap(t) + MaxOver), s \in Stores :
       \E junk \in JunkChoices(s), nullAt \in NullChoices(CurCap(t)) :
         /\ MatchRc(rc) = "success"
         /\ LET filled == HostFill(CurBuf(t), found, s, junk, nullAt)
                rec == ReclaimIntoBox(filled, CurCap(t), found)
            IN  /\ resps' = [resps EXCEPT ![t] =
                       Append(@, [rc |-> rc, found |-> found, store |-> s])]
                /\ bufs' = [bufs EXCEPT ![t][Len(bufs[t])] =
                       [filled EXCEPT !.frees = rec.frees]]
                /\ IF rec.res.kind = "Err"
                   THEN result' = [result EXCEPT ![t] = rec.res]
                   ELSE \E r \in ConvertToRustType(rec.res.msgs) :
                           result' = [result EXCEPT ![t] = r]
    /\ pc' = [pc EXCEPT ![t] = "done"]
    /\ UNCHANGED <<op, calls, pbuf>>

\* rc = MOSQ_ERR_BUFFER_FULL: return get_retained(topic, buf_size * 2)
QueryBufferFull(t) ==
    /\ pc[t] = "in_query"
    /\ Len(calls[t]) <= MaxRetries
    /\ \E rc \in HostCodes, found \in {0, CurCap(t)} :
         /\ MatchRc(rc) = "buffer_full"
         /\ LET filled == HostFill(CurBuf(t), found, "a", "zero", -1)
                next_size == GrowCapacity(CurCap(t))
            IN  /\ resps' = [resps EXCEPT ![t] =
                       Append(@, [rc |-> rc, found |-> found, store |-> "a"])]
                /\ bufs' = [bufs EXCEPT ![t] =
                       Append([@ EXCEPT ![Len(@)] = BufferFullArm(filled)],
                              NewBuffer(next_size))]
                /\ calls' = [calls EXCEPT ![t] = Append(@, QueryArgs(op[t].topic, next_size))]
    /\ UNCHANGED <<pc, op, pbuf, result>>

\* any other rc: name the error, reclaim, return the error
QueryError(t) ==
    /\ pc[t] = "in_query"
    /\ \E rc \in HostCodes, found \in {0, CurCap(t)}, nullAt \in NullChoices(CurCap(t)) :
         /\ MatchRc(rc) = "error"
         /\ LET filled == HostFill(CurBuf(t), found, "a", "zero", nullAt)
                arm == ErrorArm(filled, CurCap(t), found, rc)
            IN  /\ resps' = [resps EXCEPT ![t] =
                       Append(@, [rc |-> rc, found |-> found, store |-> "a"])]
                /\ bufs' = [bufs EXCEPT ![t][Len(bufs[t])] =
                       [filled EXCEPT !.frees = arm.frees]]
                /\ result' = [result EXCEPT ![t] = arm.res]
    /\ pc' = [pc EXCEPT ![t] = "done"]
    /\ UNCHANGED <<op, calls, pbuf>>

\* One call is run, on thread 1; the other threads make no call.
Init ==
    /\ pc = [t \in Threads |-> IF t = 1 THEN "idle" ELSE "off"]
    /\ op = [t \in Threads |-> NoOp]
    /\ calls = [t \in Threads |-> <<>>]
    /\ resps = [t \in Threads |-> <<>>]
    /\ bufs = [t \in Threads |-> <<>>]
    /\ pbuf = [t \in Threads |-> <<>>]
    /\ result = [t \in Threads |-> NoResult]

Next ==
    \E t \in Threads :
        \/ PublishBroadcastCall(t)
        \/ PublishToClientCall(t)
        \/ HostPublishReturn(t)
        \/ GetRetainedCall(t)
        \/ QuerySuccess(t)
        \/ QueryBufferFull(t)
        \/ QueryError(t)

Spec == Init /\ [][Next]_vars

(***************************************************************************)
(* Vocabulary of the properties.                                           *)
(***************************************************************************)
IsDone(t) == pc[t] = "done"
IsQuery(t) == op[t].name = "get_retained"
IsPublish(t) == op[t].name \in {"publish_broadcast", "publish_to_client"}
Answered(t) == Len(resps[t]) > 0
LastResp(t) == resps[t][Len(resps[t])]

RECURSIVE SumSeq(_)
SumSeq(q) == IF q = <<>> THEN 0 ELSE Head(q) + SumSeq(Tail(q))

\* record slots the call has allocated, and frees of record slots it has done
SlotsAllocated(t) == SumSeq([b \in 1..Len(bufs[t]) |-> bufs[t][b].cap])
SlotsFreed(t) == SumSeq([b \in 1..Len(bufs[t]) |-> SumSeq(bufs[t][b].frees)])

\* the host left every slot pointer of every buffer of the call non-null
NoNullSlot(t) ==
    \A b \in 1..Len(bufs[t]) : \A i \in 1..bufs[t][b].cap : bufs[t][b].ptrs[i]

\* the topics of the first n records of store s are well-formed UTF-8
WellFormed(s, n) == \A i \in 0..(n - 1) : IsUtf8(StoreTopic(s, i))

\* the n first retained messages of store s
StoreMessages(s, n) == [i \in 1..n |-> StoreMessage(s, i - 1)]

DecodingError ==
    [kind |-> "Err",
     msg |-> <<"get_retained failed to create topic &str from CStr pointer">>]

\* the statuses the error taxonomy names
KnownCodes == {MOSQ_ERR_SUCCESS, MOSQ_ERR_NOMEM, MOSQ_ERR_PROTOCOL, MOSQ_ERR_INVAL,
               MOSQ_ERR_BUFFER_FULL}

\* what the call of thread t would have returned had the host answered c
\* where it answered with an error status
ResultFor(t, c) ==
    IF IsPublish(t) THEN PublishResult(c)
    ELSE ErrorArm(CurBuf(t), CurCap(t), LastResp(t).found, c).res

(***************************************************************************)
(* C1.  At the return of get_retained every record slot the call allocated *)
(* has been freed: slots freed = slots allocated, on the success path, the *)
(* error path and the BUFFER_FULL path (stated for hosts that leave the    *)
(* slot pointers non-null).                                                *)
(***************************************************************************)
C1_AllSlotsFreedAtReturn ==
    \A t \in Threads :
        IsDone(t) /\ IsQuery(t) /\ NoNullSlot(t) => SlotsFreed(t) = SlotsAllocated(t)

(***************************************************************************)
(* C2.  A publish whose topic or client_id holds a 0 byte returns          *)
(* Err(Inval) as a value and has not called the host.                      *)
(***************************************************************************)
NulArgument(t) ==
    \/ HasNul(op[t].topic)
    \/ op[t].name = "publish_to_client" /\ HasNul(op[t].client_id)

C2_NulArgumentReturnsInval ==
    \A t \in Threads :
        IsDone(t) /\ IsPublish(t) /\ NulArgument(t) =>
            /\ result[t] = [kind |-> "Err", err |-> "Inval"]
            /\ Len(calls[t]) = 0

(***************************************************************************)
(* C3.  Host double for N: BUFFER_FULL whenever capacity < N, SUCCESS with *)
(* found = N whenever capacity >= N.                                       *)
(***************************************************************************)
RECURSIVE Pow2(_)
Pow2(k) == IF k = 0 THEN 1 ELSE 2 * Pow2(k - 1)

\* the largest N a double can have within the bounds
MaxDoubleN == 10 * Pow2(MaxRetries) + MaxOver

\* every answer the host has given to the call is the double's answer for N
ConformsToDouble(t, N) ==
    \A k \in 1..Len(resps[t]) :
        IF calls[t][k].len < N
        THEN resps[t][k].rc = MOSQ_ERR_BUFFER_FULL
        ELSE resps[t][k].rc = MOSQ_ERR_SUCCESS /\ resps[t][k].found = N

\* ceil(log2(N / 10)), 0 for N <= 10
CeilLog2Tenth(N) ==
    CHOOSE k \in 0..(MaxRetries + 2) :
        /\ 10 * Pow2(k) >= N
        /\ k > 0 => 10 * Pow2(k - 1) < N

StartedAtTen(t) == IsQuery(t) /\ op[t].buf_size = 10 /\ Len(calls[t]) > 0

\* C3 as stated: against the double for N, get_retained started at
\* capacity 10 returns exactly N records after exactly ceil(log2(N/10))
\* retries, the k-th attempt using capacity 10 * 2^k.
C3_DoubleReturnsNRecords ==
    \A t \in Threads : \A N \in 0..MaxDoubleN :
        IsDone(t) /\ StartedAtTen(t) /\ ConformsToDouble(t, N) /\ NoNullSlot(t) =>
            /\ result[t].kind = "Ok"
            /\ Len(result[t].msgs) = N
            /\ Len(calls[t]) - 1 = CeilLog2Tenth(N)
            /\ \A k \in 1..Len(calls[t]) : calls[t][k].len = 10 * Pow2(k - 1)

\* C3 amended: against the double for N, get_retained started at capacity
\* 10 uses capacity 10 * 2^k in its k-th attempt, never makes more than
\* ceil(log2(N/10)) retries, and returns after exactly that many; it
\* returns exactly N records when the N topics the host wrote are
\* well-formed UTF-8, and the decoding error when one of them is not.
C3_DoubleRetriesAndRecords ==
    \A t \in Threads : \A N \in 0..MaxDoubleN :
        StartedAtTen(t) /\ ConformsToDouble(t, N) /\ NoNullSlot(t) =>
            /\ \A k \in 1..Len(calls[t]) : calls[t][k].len = 10 * Pow2(k - 1)
            /\ Len(calls[t]) - 1 <= CeilLog2Tenth(N)
            /\ IsDone(t) =>
                 /\ Len(calls[t]) - 1 = CeilLog2Tenth(N)
                 /\ IF WellFormed(LastResp(t).store, N)
                    THEN result[t].kind = "Ok" /\ Len(result[t].msgs) = N
                    ELSE result[t] = DecodingError

C3_Witness ==
    \E t \in Threads :
        /\ IsDone(t) /\ StartedAtTen(t) /\ ConformsToDouble(t, 21) /\ NoNullSlot(t)
        /\ Len(calls[t]) = 3
        /\ result[t].kind = "Ok"
        /\ Len(result[t].msgs) = 21

(***************************************************************************)
(* C4.  After a publish that reached the host: on status 0 the call has    *)
(* not freed the payload block (the host owns it); on any other status the *)
(* call has freed it exactly once.                                         *)
(***************************************************************************)
C4_PayloadFreedOnFailure ==
    \A t \in Threads :
        IsDone(t) /\ IsPublish(t) /\ Answered(t) =>
            IF LastResp(t).rc = 0
            THEN pbuf[t][1].coreFrees = 0 /\ pbuf[t][1].owner = "host"
            ELSE pbuf[t][1].coreFrees = 1

(***************************************************************************)
(* C5.  SUCCESS with found = f <= capacity.                                *)
(***************************************************************************)
SucceededWithin(t) ==
    /\ IsDone(t) /\ IsQuery(t) /\ Answered(t)
    /\ LastResp(t).rc = MOSQ_ERR_SUCCESS
    /\ LastResp(t).found <= CurCap(t)
    /\ NoNullSlot(t)

EverySlotFreedOnce(t) == \A i \in 1..CurCap(t) : CurBuf(t).frees[i] = 1

\* C5 as stated: get_retained returns exactly f Domain Messages, those of
\* the slots below f, whatever the slots from f on hold, and all slots are
\* freed.
C5_SuccessReturnsFoundMessages ==
    \A t \in Threads :
        SucceededWithin(t) =>
            /\ result[t] = [kind |-> "Ok",
                            msgs |-> StoreMessages(LastResp(t).store, LastResp(t).found)]
            /\ EverySlotFreedOnce(t)

\* C5 amended: every slot is freed once and the result is decided by the
\* slots below f alone: the f Domain Messages of those slots when their
\* topics are well-formed UTF-8, the decoding error when one is not;
\* the slots from f on are never converted, whatever they hold.
C5_ResultFromPopulatedSlotsOnly ==
    \A t \in Threads :
        SucceededWithin(t) =>
            /\ EverySlotFreedOnce(t)
            /\ result[t] =
                 IF WellFormed(LastResp(t).store, LastResp(t).found)
                 THEN [kind |-> "Ok",
                       msgs |-> StoreMessages(LastResp(t).store, LastResp(t).found)]
                 ELSE DecodingError

C5_Witness ==
    \E t \in Threads :
        /\ SucceededWithin(t)
        /\ CurCap(t) = 10 /\ LastResp(t).found = 3
        /\ \A i \in 4..10 : CurBuf(t).recs[i] = WildMessage
        /\ result[t].kind = "Ok"
        /\ Len(result[t].msgs) = 3

(***************************************************************************)
(* C6.  The translated result of a status outside the named kinds carries  *)
(* the status: no other such status would have given the same result.      *)
(***************************************************************************)
C6_UnknownCodeRecoverable ==
    \A t \in Threads :
        IsDone(t) /\ Answered(t) /\ LastResp(t).rc \notin KnownCodes =>
            \A c \in AllCodes \ (KnownCodes \cup {LastResp(t).rc}) :
                ResultFor(t, c) # result[t]

(***************************************************************************)
(* C7.  The block a publish hands to the host holds exactly the bytes of   *)
(* the input payload, and the length argument is the payload's length.     *)
(***************************************************************************)
C7_PayloadBlockIsPayload ==
    \A t \in Threads :
        IsPublish(t) /\ Len(calls[t]) = 1 =>
            /\ Len(calls[t][1].payload) = Len(op[t].payload)
            /\ calls[t][1].payload = op[t].payload
            /\ calls[t][1].payloadlen = Len(op[t].payload)
            /\ pbuf[t][1].bytes = op[t].payload

C7_Witness ==
    \E t \in Threads :
        /\ op[t].name = "publish_broadcast" /\ pc[t] = "in_publish"
        /\ op[t].payload = <<255, 0>>
        /\ calls[t][1].payloadlen = 2
        /\ calls[t][1].payload = <<255, 0>>

(***************************************************************************)
(* C8.  Round trip: every Domain Message get_retained returns has the      *)
(* topic, payload, qos and retain of the retained message the host wrote   *)
(* to its slot; the first message of store "a" comes back as topic "a/b",  *)
(* payload [1,2,3], qos 1, retain true.                                    *)
(***************************************************************************)
C8_RoundTrip ==
    \A t \in Threads :
        /\ IsDone(t) /\ IsQuery(t) /\ result[t].kind = "Ok" =>
             \A i \in 1..Len(result[t].msgs) :
                 result[t].msgs[i] = StoreMessage(LastResp(t).store, i - 1)
        /\ SucceededWithin(t) /\ LastResp(t).store = "a" /\ LastResp(t).found >= 1 =>
             /\ result[t].kind = "Ok"
             /\ result[t].msgs[1] = [topic |-> <<97, 47, 98>>, payload |-> <<1, 2, 3>>,
                                     qos |-> 1, retain |-> TRUE]

C8_Witness ==
    \E t \in Threads :
        /\ SucceededWithin(t) /\ LastResp(t).store = "a" /\ LastResp(t).found = 2
        /\ result[t].kind = "Ok"
        /\ result[t].msgs[1].topic = <<97, 47, 98>>
        /\ result[t].msgs[2].payload = <<2, 2, 3>>

(***************************************************************************)
(* C9.  On a status that is neither SUCCESS nor BUFFER_FULL get_retained   *)
(* frees every slot of the buffer, does not call the host again, returns   *)
(* an error and no messages, and the error identifies the status: no other *)
(* error status would have given the same error.                           *)
(***************************************************************************)
C9_ErrorStatusReturned ==
    \A t \in Threads :
        /\ IsDone(t) /\ IsQuery(t) /\ Answered(t) /\ NoNullSlot(t)
        /\ MatchRc(LastResp(t).rc) = "error"
        =>
        /\ EverySlotFreedOnce(t)
        /\ Len(calls[t]) = Len(resps[t])
        /\ result[t].kind = "Err"
        /\ \A c \in AllCodes \ {MOSQ_ERR_SUCCESS, MOSQ_ERR_BUFFER_FULL, LastResp(t).rc} :
               ResultFor(t, c) # result[t]

(***************************************************************************)
(* C10.  A host answer is followed by another host call of the same        *)
(* get_retained exactly when it is BUFFER_FULL; that call has the same     *)
(* topic filter and twice the capacity; the answer get_retained returns on *)
(* is never BUFFER_FULL, and no host call follows it.                      *)
(***************************************************************************)
C10_RetryOnlyOnBufferFull ==
    \A t \in Threads :
        IsQuery(t) =>
            /\ \A k \in 1..Len(resps[t]) :
                   (k < Len(calls[t])) <=> (resps[t][k].rc = MOSQ_ERR_BUFFER_FULL)
            /\ \A k \in 1..(Len(calls[t]) - 1) :
                   /\ calls[t][k + 1].len = calls[t][k].len * 2
                   /\ calls[t][k + 1].topic = calls[t][k].topic
            /\ pc[t] = "in_query" => Len(calls[t]) = Len(resps[t]) + 1
            /\ IsDone(t) =>
                 /\ Len(calls[t]) = Len(resps[t])
                 /\ Answered(t) => LastResp(t).rc # MOSQ_ERR_BUFFER_FULL

C10_Witness ==
    \E t \in Threads :
        /\ IsDone(t) /\ IsQuery(t)
        /\ Len(calls[t]) = 3
        /\ resps[t][1].rc = MOSQ_ERR_BUFFER_FULL
        /\ resps[t][2].rc = MOSQ_ERR_BUFFER_FULL
        /\ resps[t][3].rc = MOSQ_ERR_NOMEM
        /\ calls[t][3].len = 4 * calls[t][1].len
        /\ calls[t][1].len > 0

(***************************************************************************)
(* C11.  When the host has nulled a slot pointer of the buffer that is     *)
(* reclaimed, get_retained returns the null-pointer error of               *)
(* reclaim_into_box as an Err value and no messages, and every slot before *)
(* the first null one has been freed exactly once.                         *)
(***************************************************************************)
NullPointerText == "Dereferencing a null pointer is a bad idea"

\* the call has returned from an attempt whose buffer was reclaimed with a
\* null slot pointer in it
ReclaimedWithNull(t) ==
    /\ IsDone(t) /\ IsQuery(t) /\ Answered(t)
    /\ \E i \in 1..CurCap(t) : ~CurBuf(t).ptrs[i]

FirstNull(t) == CHOOSE i \in 1..CurCap(t) :
                    ~CurBuf(t).ptrs[i] /\ \A j \in 1..(i - 1) : CurBuf(t).ptrs[j]

C11_NullSlotIsAnError ==
    \A t \in Threads :
        ReclaimedWithNull(t) =>
            /\ result[t].kind = "Err"
            /\ NullPointerText \in Range(result[t].msg)
            /\ \A i \in 1..(FirstNull(t) - 1) : CurBuf(t).frees[i] = 1
            /\ \A i \in FirstNull(t)..CurCap(t) : CurBuf(t).frees[i] = 0

C11_Witness ==
    \E t \in Threads :
        /\ ReclaimedWithNull(t)
        /\ CurCap(t) = 10 /\ FirstNull(t) = 10
        /\ LastResp(t).rc = MOSQ_ERR_SUCCESS
        /\ CurBuf(t).frees[9] = 1
        /\ result[t] = [kind |-> "Err", msg |-> <<NullPointerText>>]

(***************************************************************************)
(* C12.  get_retained with a topic filter that holds a 0 byte returns an   *)
(* error, has not called the host and has allocated no slot.               *)
(***************************************************************************)
C12_NulFilterFailsFast ==
    \A t \in Threads :
        IsQuery(t) /\ 0 \in Range(op[t].topic) =>
            /\ IsDone(t)
            /\ result[t].kind = "Err"
            /\ Len(calls[t]) = 0
            /\ Len(resps[t]) = 0
            /\ SlotsAllocated(t) = 0

C12_Witness ==
    \E t \in Threads :
        /\ IsDone(t) /\ IsQuery(t)
        /\ op[t].topic = <<97, 0, 98>> /\ op[t].buf_size = 10
        /\ result[t].kind = "Err"
        /\ bufs[t] = <<>>

(***************************************************************************)
(* C13.  A publish with valid arguments calls the host exactly once: one   *)
(* call is logged while the call is in the host and still exactly one when *)
(* it has returned, whatever the status.                                   *)
(***************************************************************************)
C13_PublishCallsHostOnce ==
    \A t \in Threads :
        IsPublish(t) /\ ~NulArgument(t) =>
            /\ Len(calls[t]) = 1
            /\ pc[t] = "in_publish" => Len(resps[t]) = 0
            /\ IsDone(t) => Len(resps[t]) = 1
            /\ pc[t] \in {"in_publish", "done"}

C13_Witness ==
    \E t \in Threads :
        /\ IsDone(t) /\ op[t].name = "publish_to_client" /\ ~NulArgument(t)
        /\ LastResp(t).rc = MOSQ_ERR_NOMEM
        /\ result[t] = [kind |-> "Err", err |-> "NoMem"]
        /\ Len(calls[t]) = 1

(***************************************************************************)
(* C14.  The messages get_retained returns are in slot order: the i-th     *)
(* message is the conversion of the record in slot i of the buffer.        *)
(***************************************************************************)
C14_SlotOrderPreserved ==
    \A t \in Threads :
        IsDone(t) /\ IsQuery(t) /\ result[t].kind = "Ok" =>
            /\ Len(result[t].msgs) <= CurCap(t)
            /\ \A i \in 1..Len(result[t].msgs) :
                 LET r == CurBuf(t).recs[i]
                     m == result[t].msgs[i]
                 IN  /\ m.topic \o <<0>> = r.topic.mem
                     /\ m.payload = r.payload.mem
                     /\ m.qos = r.qos
                     /\ m.retain = r.retain
                     /\ r.mid = i

C14_Witness ==
    \E t \in Threads :
        /\ IsDone(t) /\ IsQuery(t) /\ result[t].kind = "Ok"
        /\ Len(result[t].msgs) = 3
        /\ result[t].msgs[1].payload = <<1, 2, 3>>
        /\ result[t].msgs[2].payload = <<2, 2, 3>>
        /\ result[t].msgs[3].payload = <<3, 2, 3>>

(***************************************************************************)
(* C15.  publish_broadcast passes the null pointer as client id;           *)
(* publish_to_client passes a non-null pointer to the client id followed   *)
(* by a 0 byte, also for the empty client id.                              *)
(***************************************************************************)
C15_ClientIdSentinel ==
    \A t \in Threads :
        IsPublish(t) /\ Len(calls[t]) >= 1 =>
            LET c == calls[t][1].client_id
            IN  IF op[t].name = "publish_broadcast"
                THEN c.null
                ELSE /\ ~c.null /\ c.valid
                     /\ c.mem = op[t].client_id \o <<0>>
                     /\ CStrBytes(c.mem) = op[t].client_id

C15_Witness ==
    \E t \in Threads :
        /\ op[t].name = "publish_to_client" /\ pc[t] = "in_publish"
        /\ op[t].client_id = <<>>
        /\ ~calls[t][1].client_id.null
        /\ calls[t][1].client_id.mem = <<0>>

(***************************************************************************)
(* C17.  Every retry of get_retained passes the host a capacity strictly   *)
(* larger than the one of the attempt before it (so that a host holding N  *)
(* messages is eventually given room for them and the call returns).       *)
(***************************************************************************)
C17_RetryCapacityGrows ==
    \A t \in Threads :
        IsQuery(t) =>
            \A k \in 1..(Len(calls[t]) - 1) : calls[t][k + 1].len > calls[t][k].len

(***************************************************************************)
(* C18.  No slot of any buffer of get_retained is freed more than once,    *)
(* and a slot is freed only after the host query that was given its buffer *)
(* has returned.                                                           *)
(***************************************************************************)
C18_NoDoubleFreeNoEarlyFree ==
    \A t \in Threads :
        \A b \in 1..Len(bufs[t]) :
            /\ \A i \in 1..bufs[t][b].cap : bufs[t][b].frees[i] <= 1
            /\ ~bufs[t][b].returned =>
                  /\ b = Len(bufs[t]) /\ pc[t] = "in_query" /\ Len(resps[t]) = b - 1
                  /\ \A i \in 1..bufs[t][b].cap : bufs[t][b].frees[i] = 0
            /\ bufs[t][b].returned => Len(resps[t]) >= b

C18_Witness ==
    \E t \in Threads :
        /\ IsDone(t) /\ IsQuery(t) /\ Len(bufs[t]) = 2
        /\ LastResp(t).rc = MOSQ_ERR_NOMEM
        /\ bufs[t][2].cap = 6
        /\ \A i \in 1..6 : bufs[t][2].frees[i] = 1
        /\ bufs[t][1].returned /\ bufs[t][2].returned

(***************************************************************************)
(* C19.  reclaim_into_box visits exactly the capacity slots of the buffer  *)
(* and returns min(found_count, capacity) records, the first ones of the   *)
(* buffer, also when the host reports more messages than the capacity.     *)
(***************************************************************************)
Min(a, b) == IF a < b THEN a ELSE b

\* the buffer of the last attempt as it was handed to reclaim_into_box
Unreclaimed(t) == [CurBuf(t) EXCEPT !.frees = [i \in 1..CurCap(t) |-> 0]]

C19_ReclaimWithinCapacity ==
    \A t \in Threads :
        IsDone(t) /\ IsQuery(t) /\ Answered(t) /\ NoNullSlot(t) =>
            LET found == LastResp(t).found
                rec == ReclaimIntoBox(Unreclaimed(t), CurCap(t), found)
            IN  /\ rec.res.kind = "Ok"
                /\ Len(rec.res.msgs) = Min(found, CurCap(t))
                /\ \A i \in 1..Len(rec.res.msgs) : rec.res.msgs[i] = CurBuf(t).recs[i]
                /\ DOMAIN rec.frees = 1..CurCap(t)
                /\ CurBuf(t).frees = [i \in 1..CurCap(t) |-> 1]
                /\ result[t].kind = "Ok" => Len(result[t].msgs) = Min(found, CurCap(t))

C19_Witness ==
    \E t \in Threads :
        /\ IsDone(t) /\ IsQuery(t) /\ Answered(t) /\ NoNullSlot(t)
        /\ CurCap(t) = 3 /\ LastResp(t).found = 4
        /\ result[t].kind = "Ok" /\ Len(result[t].msgs) = 3
        /\ CurBuf(t).frees = <<1, 1, 1>>

(***************************************************************************)
(* Two calls at once.  The host calls the plugin from two threads; each    *)
(* thread runs one call of one of the three functions, and the steps of    *)
(* the two calls interleave in every order.  The steps are the steps of    *)
(* Next; to keep the product of the two calls small, the arguments and the *)
(* host's answers are taken from the small sets of ConcInputs.             *)
(***************************************************************************)
ConcAttempts == 2

ConcInit ==
    /\ pc = [t \in Threads |-> "idle"]
    /\ op = [t \in Threads |-> NoOp]
    /\ calls = [t \in Threads |-> <<>>]
    /\ resps = [t \in Threads |-> <<>>]
    /\ bufs = [t \in Threads |-> <<>>]
    /\ pbuf = [t \in Threads |-> <<>>]
    /\ result = [t \in Threads |-> NoResult]

ConcInputs ==
    \A t \in Threads :
        /\ op[t] # NoOp =>
              /\ op[t].topic \in {<<97>>, <<97, 0, 98>>}
              /\ IsPublish(t) => /\ op[t].payload \in {<<>>, <<1, 2, 3>>}
                                 /\ op[t].qos = "AtLeastOnce"
                                 /\ ~op[t].retain
              /\ op[t].name = "publish_to_client" => op[t].client_id = <<97>>
              /\ IsQuery(t) => op[t].buf_size = 1
        /\ Len(calls[t]) <= ConcAttempts
        /\ \A k \in 1..Len(resps[t]) :
              /\ resps[t][k].rc \in {MOSQ_ERR_SUCCESS, MOSQ_ERR_NOMEM, MOSQ_ERR_BUFFER_FULL}
              /\ resps[t][k].store = "a"
        /\ \A b \in 1..Len(bufs[t]) :
              \A i \in 1..bufs[t][b].cap : bufs[t][b].recs[i] # WildMessage

ConcNext ==
    \E t \in Threads :
        \/ PublishBroadcastCall(t) /\ ConcInputs'
        \/ PublishToClientCall(t) /\ ConcInputs'
        \/ HostPublishReturn(t) /\ ConcInputs'
        \/ GetRetainedCall(t) /\ ConcInputs'
        \/ QuerySuccess(t) /\ ConcInputs'
        \/ QueryBufferFull(t) /\ ConcInputs'
        \/ QueryError(t) /\ ConcInputs'

ConcSpec == ConcInit /\ [][ConcNext]_vars

(***************************************************************************)
(* C16.  Under every interleaving of two calls, what a call has done and   *)
(* what it returns is what the same call does alone with the same          *)
(* arguments and the same answers of the host: its foreign calls, the      *)
(* buffers it has allocated, the frees it has done in them (and in no      *)
(* other buffer), and its result.                                          *)
(***************************************************************************)
\* the capacity of attempt k of a query that started with capacity c
AloneCap(c, k) == c * Pow2(k - 1)

\* the number of attempts a query that has had the answers rs has started
AloneAttempts(rs) ==
    IF rs = <<>> \/ MatchRc(rs[Len(rs)].rc) = "buffer_full"
    THEN Len(rs) + 1 ELSE Len(rs)

\* buffer b of the query of thread t as the host left it, no slot freed
AsHostLeftIt(t, b) ==
    LET cap == AloneCap(op[t].buf_size, b)
    IN  [cap |-> cap,
         ptrs |-> bufs[t][b].ptrs,
         recs |-> bufs[t][b].recs,
         frees |-> [i \in 1..cap |-> 0],
         returned |-> b <= Len(resps[t])]

PublishAlone(t) ==
    LET o == op[t]
        client == IF o.name = "publish_to_client" THEN ClientIdArg(o.client_id) ELSE NullPtr
        args == PublishArgs(client, o.topic, o.payload, o.qos, o.retain)
    IN  /\ bufs[t] = <<>>
        /\ IF NulArgument(t)
           THEN /\ pc[t] = "done" /\ result[t] = [kind |-> "Panic"]
                /\ calls[t] = <<>> /\ resps[t] = <<>> /\ pbuf[t] = <<>>
           ELSE /\ calls[t] = <<args>>
                /\ IF resps[t] = <<>>
                   THEN /\ pc[t] = "in_publish" /\ result[t] = NoResult
                        /\ pbuf[t] = <<PayloadBlock(o.payload)>>
                   ELSE /\ pc[t] = "done" /\ Len(resps[t]) = 1
                        /\ result[t] = PublishResult(resps[t][1].rc)
                        /\ pbuf[t] = <<AfterPublish(PayloadBlock(o.payload), resps[t][1].rc)>>

QueryAlone(t) ==
    LET o == op[t]
        n == Len(resps[t])
        m == AloneAttempts(resps[t])
    IN  /\ pbuf[t] = <<>>
        /\ IF HasNul(o.topic)
           THEN /\ pc[t] = "done" /\ result[t].kind = "Err"
                /\ calls[t] = <<>> /\ resps[t] = <<>> /\ bufs[t] = <<>>
           ELSE /\ \A k \in 1..(n - 1) : MatchRc(resps[t][k].rc) = "buffer_full"
                /\ calls[t] = [k \in 1..m |-> QueryArgs(o.topic, AloneCap(o.buf_size, k))]
                /\ Len(bufs[t]) = m
                /\ \A b \in 1..m : bufs[t][b].cap = AloneCap(o.buf_size, b)
                \* a buffer answered with BUFFER_FULL, or not answered yet: no free
                /\ \A b \in 1..m :
                     b < m \/ m > n => bufs[t][b].frees = AsHostLeftIt(t, b).frees
                /\ IF m > n
                   THEN /\ pc[t] = "in_query" /\ result[t] = NoResult
                        /\ bufs[t][m] = NewBuffer(AloneCap(o.buf_size, m))
                   ELSE LET r == resps[t][n]
                            given == AsHostLeftIt(t, m)
                        IN  /\ pc[t] = "done"
                            /\ IF MatchRc(r.rc) = "success"
                               THEN LET rec == ReclaimIntoBox(given, given.cap, r.found)
                                    IN  /\ bufs[t][m].frees = rec.frees
                                        /\ IF rec.res.kind = "Err"
                                           THEN result[t] = rec.res
                                           ELSE result[t] \in ConvertToRustType(rec.res.msgs)
                               ELSE LET arm == ErrorArm(given, given.cap, r.found, r.rc)
                                    IN  /\ bufs[t][m].frees = arm.frees
                                        /\ result[t] = arm.res

C16_ConcurrentCallsIndependent ==
    \A t \in Threads :
        CASE op[t] = NoOp ->
                /\ pc[t] = "idle" /\ result[t] = NoResult
                /\ calls[t] = <<>> /\ resps[t] = <<>> /\ bufs[t] = <<>> /\ pbuf[t] = <<>>
          [] IsPublish(t) -> PublishAlone(t)
          [] IsQuery(t) -> QueryAlone(t)

\* thread 1 has its second buffer with the host, nothing of it freed, while
\* thread 2 has run a whole query of its own and returned its two messages,
\* its own slots freed
C16_Witness ==
    /\ IsQuery(1) /\ pc[1] = "in_query" /\ Len(bufs[1]) = 2
    /\ bufs[1][1].frees = <<0>> /\ bufs[1][2].frees = <<0, 0>>
    /\ IsQuery(2) /\ IsDone(2) /\ Len(bufs[2]) = 2
    /\ LastResp(2).rc = MOSQ_ERR_SUCCESS
    /\ bufs[2][1].frees = <<0>> /\ bufs[2][2].frees = <<1, 1>>
    /\ result[2].kind = "Ok" /\ Len(result[2].msgs) = 2

====
